---- MODULE Spec2Model ----
(***************************************************************************)
(* pymodoro daemon (src/src/pymodoro/daemon.py): the Timer supervisor, the *)
(* run_timer worker process it spawns, and the Pipe between them.          *)
(*                                                                         *)
(* Time is counted in ticks of 1/TicksPerSec second.  Every call of the    *)
(* supervisor that can observe the worker (is_alive, send, recv) is a      *)
(* separate step, and so is every worker statement that reads the clock or *)
(* the pipe, so that all interleavings of the two processes are explored.  *)
(***************************************************************************)
EXTENDS Integers, Naturals, Sequences, FiniteSets, TLC

\* ---- bounds of the model -------------------------------------------------
MaxDuration == 1
TicksPerSec == 2
MaxRunners == 2
MaxInbox == 2

Durations == 0..MaxDuration
HookNames == {"begin_cmd", "done_cmd", "end_cmd"}

VARIABLES
    config,   \* Timer._config: hook name -> "ok" (runs) | "raise" (Popen raises)
    timer,    \* Timer._timer: 0 is None, otherwise the index of the Process
    runners,  \* every Process spawned so far, with its end of the Pipe
    spc,      \* where the daemon's main thread is
    op,       \* the command main() is executing
    last,     \* the response main() sent last
    conn      \* the socket main()'s name conn is bound to: "none" before the
              \* first accept, "open" (accepted, no response written yet) or
              \* "replied" (response written); main() never calls conn.close()

vars == <<config, timer, runners, spc, op, last, conn>>

\* ---- pure helpers --------------------------------------------------------

\* Python's round() of the rational n/q (q > 0): to nearest, ties to even.
Round(n, q) ==
    LET f == n \div q
        r == n % q
    IN  IF 2 * r < q THEN f
        ELSE IF 2 * r > q THEN f + 1
        ELSE IF f % 2 = 0 THEN f ELSE f + 1

\* the loop condition with the comparison lost: the countdown never ends
LoopCondNeverEnds(elapsed, duration) == elapsed >= 0 \/ duration >= 0

\* line 100: the loop condition of run_timer, elapsed in ticks, duration in s
LoopCond(elapsed, duration) == elapsed < duration * TicksPerSec

\* the reply with is_paused reported as it was at start
StatusReplyStalePaused(r) ==
    [duration  |-> r.duration,
     remaining |-> Round(r.duration * TicksPerSec - r.elapsed_time, TicksPerSec),
     is_paused |-> FALSE]

\* lines 107-113: the reply to STATUS
StatusReply(r) ==
    [duration  |-> r.duration,
     remaining |-> Round(r.duration * TicksPerSec - r.elapsed_time, TicksPerSec),
     is_paused |-> r.is_paused]

\* Process.is_alive()
is_alive(r) == r.pc # "exited"

\* lines 47-50: the Process as it is right after process.start()
NewRunner(d) ==
    [pc |-> "begin", duration |-> d, wall |-> 0, elapsed_time |-> 0,
     is_paused |-> FALSE, inbox |-> <<>>, outbox |-> <<>>,
     hooks |-> <<>>, how |-> "none"]

\* the process is gone: its end of the pipe is closed, unread requests are
\* lost; is_paused is kept as the value the process ended with
Exited(r, how) ==
    [r EXCEPT !.pc = "exited", !.how = how, !.inbox = <<>>,
              !.wall = 0, !.elapsed_time = 0]

\* _cleanup with the liveness test inverted
cleanup_inverted(t, rs) ==
    IF t = 0 THEN 0
    ELSE IF is_alive(rs[t]) THEN 0
    ELSE t

\* lines 79-83: Timer._cleanup, the new value of self._timer
cleanup(t, rs) ==
    IF t = 0 THEN 0
    ELSE IF ~is_alive(rs[t]) THEN 0
    ELSE t

\* line 83: with self._timer = None the Process and its Connection are
\* dropped; nothing of the exited worker is kept
Reaped == Exited(NewRunner(0), "none")

reap(t, rs) ==
    IF t # 0 /\ cleanup(t, rs) = 0 THEN [rs EXCEPT ![t] = Reaped] ELSE rs

\* lines 85-87: Timer._is_running is cleanup(timer, runners) # 0

Resp(c, r) ==
    [cmd |-> c, res |-> r, has |-> FALSE, duration |-> 0, remaining |-> 0,
     is_paused |-> FALSE]

\* lines 183-192: the response to a status command
StatusResp(p) ==
    [cmd |-> "status", res |-> "OK", has |-> TRUE, duration |-> p.duration,
     remaining |-> p.remaining, is_paused |-> p.is_paused]

Init ==
    /\ config \in [HookNames -> {"ok", "raise"}]
    /\ timer = 0
    /\ runners = <<>>
    /\ spc = "accept"
    /\ op = "none"
    /\ last = Resp("none", "none")
    /\ conn = "none"

\* ---- the worker process: run_timer, lines 96-123 -------------------------

SetRunner(i, r) == runners' = [runners EXCEPT ![i] = r]

SupUnchanged == UNCHANGED <<config, timer, spc, op, last, conn>>

\* lines 97-99: is_paused = False; begin_cmd(); start = time.time()
\* A hook that raises ends the process with a traceback.
RunBegin(i) ==
    /\ runners[i].pc = "begin"
    /\ LET r == [runners[i] EXCEPT !.hooks = Append(@, "begin_cmd")]
       IN  IF config["begin_cmd"] = "raise"
           THEN SetRunner(i, Exited(r, "crash"))
           ELSE SetRunner(i, [r EXCEPT !.pc = "head", !.wall = 0])
    /\ SupUnchanged

\* lines 100-101: elapsed_time := time.time() - start, tested against
\* duration; then the branch on is_paused (the sleep of line 102 is the gap
\* between this step and RunPoll)
RunHead(i) ==
    /\ runners[i].pc = "head"
    /\ LET r == [runners[i] EXCEPT !.elapsed_time = runners[i].wall]
       IN  IF LoopCond(r.elapsed_time, r.duration)
           THEN SetRunner(i, [r EXCEPT !.pc = IF r.is_paused THEN "recv" ELSE "poll"])
           ELSE SetRunner(i, [r EXCEPT !.pc = "done"])
    /\ SupUnchanged

\* lines 103-104: if not conn.poll(): continue
RunPoll(i) ==
    /\ runners[i].pc = "poll"
    /\ SetRunner(i, [runners[i] EXCEPT !.pc = IF runners[i].inbox = <<>> THEN "head" ELSE "recv"])
    /\ SupUnchanged

\* the worker acknowledging PAUSE with a reply of its own
RunRecvAcksPause(i) ==
    /\ runners[i].pc = "recv"
    /\ runners[i].inbox # <<>>
    /\ LET m == Head(runners[i].inbox)
           r == [runners[i] EXCEPT !.inbox = Tail(@)]
       IN  CASE m = "STATUS" ->
                  SetRunner(i, [r EXCEPT !.outbox = Append(@, StatusReply(r)), !.pc = "head"])
             [] m = "STOP" ->
                  SetRunner(i, [r EXCEPT !.pc = "end", !.how = "stop"])
             [] m = "PAUSE" ->
                  SetRunner(i, [r EXCEPT !.is_paused = TRUE, !.pc = "head",
                                         !.outbox = Append(@, StatusReply(r))])
             [] m = "RESUME" ->
                  SetRunner(i, [r EXCEPT !.is_paused = FALSE, !.pc = "head"])
    /\ SupUnchanged

\* the worker with a STOP case that does not leave the loop
RunRecvIgnoresStop(i) ==
    /\ runners[i].pc = "recv"
    /\ runners[i].inbox # <<>>
    /\ LET m == Head(runners[i].inbox)
           r == [runners[i] EXCEPT !.inbox = Tail(@)]
       IN  CASE m = "STATUS" ->
                  SetRunner(i, [r EXCEPT !.outbox = Append(@, StatusReply(r)), !.pc = "head"])
             [] m = "STOP" ->
                  SetRunner(i, [r EXCEPT !.pc = "head"])
             [] m = "PAUSE" ->
                  SetRunner(i, [r EXCEPT !.is_paused = TRUE, !.pc = "head"])
             [] m = "RESUME" ->
                  SetRunner(i, [r EXCEPT !.is_paused = FALSE, !.pc = "head"])
    /\ SupUnchanged

\* lines 105-119: match conn.recv(); blocks while the pipe is empty
RunRecv(i) ==
    /\ runners[i].pc = "recv"
    /\ runners[i].inbox # <<>>
    /\ LET m == Head(runners[i].inbox)
           r == [runners[i] EXCEPT !.inbox = Tail(@)]
       IN  CASE m = "STATUS" ->
                  SetRunner(i, [r EXCEPT !.outbox = Append(@, StatusReply(r)), !.pc = "head"])
             [] m = "STOP" ->
                  SetRunner(i, [r EXCEPT !.pc = "end", !.how = "stop"])
             [] m = "PAUSE" ->
                  SetRunner(i, [r EXCEPT !.is_paused = TRUE, !.pc = "head"])
             [] m = "RESUME" ->
                  SetRunner(i, [r EXCEPT !.is_paused = FALSE, !.pc = "head"])
    /\ SupUnchanged

\* lines 120-121: the loop's else branch: done_cmd()
RunDone(i) ==
    /\ runners[i].pc = "done"
    /\ LET r == [runners[i] EXCEPT !.hooks = Append(@, "done_cmd")]
       IN  IF config["done_cmd"] = "raise"
           THEN SetRunner(i, Exited(r, "crash"))
           ELSE SetRunner(i, [r EXCEPT !.pc = "end", !.how = "natural"])
    /\ SupUnchanged

\* lines 122-123: end_cmd(); sys.exit()
RunEnd(i) ==
    /\ runners[i].pc = "end"
    /\ LET r == [runners[i] EXCEPT !.hooks = Append(@, "end_cmd")]
       IN  \* whether end_cmd returns or raises, the process is gone next
           SetRunner(i, Exited(r, r.how))
    /\ SupUnchanged

RunnerStep ==
    \E i \in DOMAIN runners :
        RunBegin(i) \/ RunHead(i) \/ RunPoll(i) \/ RunRecv(i) \/ RunDone(i) \/ RunEnd(i)

\* time.time() advances by one tick for every process that has taken its
\* start time; the reading is kept only up to the duration, beyond which the
\* loop condition no longer depends on it
Counting(r) ==
    /\ r.pc \in {"head", "poll", "recv"}
    /\ r.wall < r.duration * TicksPerSec

Tick ==
    /\ \E i \in DOMAIN runners : Counting(runners[i])
    /\ runners' = [i \in DOMAIN runners |->
                     IF Counting(runners[i])
                     THEN [runners[i] EXCEPT !.wall = @ + 1]
                     ELSE runners[i]]
    /\ SupUnchanged

\* ---- the supervisor: class Timer, as called from main(), lines 164-213 ---

\* main() takes the next command only at s.accept(); the number of requests
\* the worker has not read yet is bounded
InboxRoom == IF timer = 0 THEN TRUE ELSE Len(runners[timer].inbox) < MaxInbox

\* conn.send(m), lines 56, 62, 71, 77: the request is queued for the worker
Sent(m) == runners' = [runners EXCEPT ![timer].inbox = Append(@, m)]

\* an exception no handler of main() catches ends the daemon: send() on a
\* pipe whose other end is closed raises BrokenPipeError, recv() EOFError
Crash ==
    /\ spc' = "crashed"
    /\ last' = Resp(op, "ERROR")
    /\ conn' = "open"
    /\ UNCHANGED <<config, timer, runners, op>>

\* line 165: conn is bound to the socket accept() returned (which lets go of
\* the socket of the connection before); no response is written yet
Accepted == conn' = "open"

\* the response is written and main() is back at s.accept()
Respond(r) ==
    /\ last' = r
    /\ conn' = "replied"
    /\ spc' = "accept"
    /\ op' = "none"

\* lines 44-50 with 169-175: Timer.start
start(d) ==
    /\ spc = "accept"
    /\ LET t == cleanup(timer, runners)
       IN  IF t # 0
           THEN /\ timer' = t
                /\ Respond(Resp("start", "ALREADY_RUNNING"))
                /\ UNCHANGED <<config, runners>>
           ELSE /\ Len(runners) < MaxRunners
                /\ runners' = Append(reap(timer, runners), NewRunner(d))
                /\ timer' = Len(runners) + 1
                /\ Respond([Resp("start", "OK") EXCEPT !.duration = d])
                /\ UNCHANGED config

\* stop whose _is_running does not call _cleanup first
stop_no_cleanup ==
    /\ spc = "accept"
    /\ InboxRoom
    /\ IF timer = 0
       THEN Respond(Resp("stop", "NOT_RUNNING"))
       ELSE /\ spc' = "stop_send"
            /\ op' = "stop"
            /\ Accepted
            /\ UNCHANGED last
    /\ UNCHANGED <<config, timer, runners>>

\* lines 52-55 with 176-180: Timer.stop up to the liveness check
stop ==
    /\ spc = "accept"
    /\ InboxRoom
    /\ timer' = cleanup(timer, runners)
    /\ IF timer' = 0
       THEN Respond(Resp("stop", "NOT_RUNNING"))
       ELSE /\ spc' = "stop_send"
            /\ op' = "stop"
            /\ Accepted
            /\ UNCHANGED last
    /\ runners' = reap(timer, runners)
    /\ UNCHANGED config

\* stop that also forgets the handle after sending STOP
stop_send_forgets ==
    /\ spc = "stop_send"
    /\ IF is_alive(runners[timer])
       THEN /\ Sent("STOP")
            /\ timer' = 0
            /\ Respond(Resp("stop", "OK"))
            /\ UNCHANGED config
       ELSE Crash

\* stop that waits for an acknowledgment of its STOP
stop_send_acks ==
    /\ spc = "stop_send"
    /\ IF is_alive(runners[timer])
       THEN /\ Sent("STOP")
            /\ spc' = "status_recv"
            /\ UNCHANGED <<config, timer, op, last, conn>>
       ELSE Crash

\* line 56 with 181-182: self._timer["conn"].send("STOP"); self._timer stays
stop_send ==
    /\ spc = "stop_send"
    /\ IF is_alive(runners[timer])
       THEN /\ Sent("STOP")
            /\ Respond(Resp("stop", "OK"))
            /\ UNCHANGED <<config, timer>>
       ELSE Crash

\* what the caller of Timer.status does with its result p (<<>> is None):
\* main() lines 183-192, Timer.pause lines 66-68 (through _is_paused, lines
\* 89-93), Timer.resume lines 74-76
status_return(p) ==
    LET paused == IF p = <<>> THEN FALSE ELSE p.is_paused
    IN  CASE op = "status" ->
               Respond(IF p = <<>> THEN Resp("status", "OK") ELSE StatusResp(p))
          [] op = "pause" ->
               IF paused
               THEN Respond(Resp("pause", "ALREADY_PAUSED"))
               ELSE spc' = "pause_running" /\ UNCHANGED <<op, last, conn>>
          [] op = "resume" ->
               IF ~paused
               THEN Respond(Resp("resume", "NOT_PAUSED"))
               ELSE spc' = "resume_send" /\ UNCHANGED <<op, last, conn>>

\* lines 58-60: Timer.status up to the liveness check, entered for the
\* command c of main(): status itself, or pause and resume through _is_paused
status(c) ==
    /\ spc = "accept"
    /\ InboxRoom
    /\ timer' = cleanup(timer, runners)
    /\ IF timer' = 0
       THEN \/ c = "status" /\ Respond(Resp("status", "OK"))
            \/ c = "pause" /\ spc' = "pause_running" /\ op' = c /\ Accepted /\ UNCHANGED last
            \/ c = "resume" /\ Respond(Resp("resume", "NOT_PAUSED"))
       ELSE /\ spc' = "status_send"
            /\ op' = c
            /\ Accepted
            /\ UNCHANGED last
    /\ runners' = reap(timer, runners)
    /\ UNCHANGED config

\* line 62: self._timer["conn"].send("STATUS")
status_send ==
    /\ spc = "status_send"
    /\ IF is_alive(runners[timer])
       THEN /\ Sent("STATUS")
            /\ spc' = "status_recv"
            /\ UNCHANGED <<config, timer, op, last, conn>>
       ELSE Crash

\* line 63: return self._timer["conn"].recv(); a reply the worker wrote
\* before it exited is still read, an empty pipe with the worker gone is EOF
status_recv ==
    /\ spc = "status_recv"
    /\ IF runners[timer].outbox # <<>>
       THEN /\ runners' = [runners EXCEPT ![timer].outbox = Tail(@)]
            /\ status_return(Head(runners[timer].outbox))
            /\ UNCHANGED <<config, timer>>
       ELSE /\ ~is_alive(runners[timer])
            /\ Crash

\* lines 68-69 with 198-199: the second liveness check of Timer.pause
pause_running ==
    /\ spc = "pause_running"
    /\ timer' = cleanup(timer, runners)
    /\ IF timer' = 0
       THEN Respond(Resp("pause", "NOT_RUNNING"))
       ELSE spc' = "pause_send" /\ UNCHANGED <<op, last, conn>>
    /\ runners' = reap(timer, runners)
    /\ UNCHANGED config

\* line 71 with 200-201
pause_send ==
    /\ spc = "pause_send"
    /\ IF is_alive(runners[timer])
       THEN /\ Sent("PAUSE")
            /\ Respond(Resp("pause", "OK"))
            /\ UNCHANGED <<config, timer>>
       ELSE Crash

\* line 77 with 207-208
resume_send ==
    /\ spc = "resume_send"
    /\ IF is_alive(runners[timer])
       THEN /\ Sent("RESUME")
            /\ Respond(Resp("resume", "OK"))
            /\ UNCHANGED <<config, timer>>
       ELSE Crash

\* requests that are not one of the five commands: a payload that is not
\* JSON, JSON whose command is unknown, a start whose duration is not a number
BadRequests == {"not_json", "unknown_command", "bad_duration"}

\* line 166: json.loads raises on a payload that is not JSON; line 171:
\* int(duration) raises on a duration that is not a number; neither is
\* caught.  Lines 209-210: any other value falls to case _.
bad_request(q) ==
    /\ spc = "accept"
    /\ IF q = "unknown_command"
       THEN Respond(Resp("invalid", "INVALID_COMMAND"))
       ELSE /\ spc' = "crashed"
            /\ last' = Resp("invalid", "ERROR")
            /\ Accepted
            /\ UNCHANGED op
    /\ UNCHANGED <<config, timer, runners>>

SupervisorStep ==
    \/ \E d \in Durations : start(d)
    \/ \E q \in BadRequests : bad_request(q)
    \/ stop
    \/ stop_send
    \/ \E c \in {"status", "pause", "resume"} : status(c)
    \/ status_send
    \/ status_recv
    \/ pause_running
    \/ pause_send
    \/ resume_send

Next == SupervisorStep \/ RunnerStep \/ Tick

Spec == Init /\ [][Next]_vars

\* the operating system runs the worker process and the clock advances
LiveSpec == Spec /\ WF_vars(RunnerStep) /\ WF_vars(Tick)

\* ---- properties ----------------------------------------------------------

AliveRunners == {i \in DOMAIN runners : is_alive(runners[i])}

\* C1: at every instant at most one run_timer process is alive; a worker
\* that has been sent STOP but has not exited yet still counts, and start
\* refuses to spawn next to it.
C1_AtMostOneRunner == Cardinality(AliveRunners) <= 1

\* a second worker was spawned after the first one exited, and a further
\* start was refused while the second one is alive
C1_Witness ==
    /\ Len(runners) = 2
    /\ ~is_alive(runners[1])
    /\ is_alive(runners[2])
    /\ last = Resp("start", "ALREADY_RUNNING")

\* C2 (as claimed): two status responses in a row that both report a paused
\* timer report the same remaining.
C2_PausedRemainingFrozen ==
    [][(/\ last.cmd = "status" /\ last.has /\ last.is_paused
        /\ spc = "status_recv" /\ spc' = "accept"
        /\ last'.cmd = "status" /\ last'.has /\ last'.is_paused)
       => last'.remaining = last.remaining]_vars

\* C3 (as claimed): a call of Timer.status that has passed its liveness
\* check never fails while it sends the request or waits for the reply.
C3_StatusNeverFails ==
    [][(spc \in {"status_send", "status_recv"}) => (spc' # "crashed")]_vars

\* C4 (as claimed): once stop has answered OK the supervisor holds no handle.
C4_StopDropsHandle ==
    (spc = "accept" /\ last.cmd = "stop" /\ last.res = "OK") => timer = 0

\* C5 (as claimed): the status command that follows a stop answered OK
\* reports idle: OK without fields, never a running timer, never a failure.
C5_StatusIdleAfterStop ==
    [][(last.cmd = "stop" /\ last.res = "OK" /\ last'.cmd = "status")
       => last' = Resp("status", "OK")]_vars

\* C6 (as claimed): the hooks of a worker that has exited (and is still
\* held by the supervisor) are begin, then
\* done exactly when it completed naturally, then end; a worker that was
\* stopped ran begin and end only.
C6_HookTrace ==
    \A i \in DOMAIN runners :
        (~is_alive(runners[i]) /\ runners[i] # Reaped) =>
            \/ /\ runners[i].how = "natural"
               /\ runners[i].hooks = <<"begin_cmd", "done_cmd", "end_cmd">>
            \/ /\ runners[i].how = "stop"
               /\ runners[i].hooks = <<"begin_cmd", "end_cmd">>

\* C7 (as claimed): the status command that follows a start(d) answered OK
\* returns a payload with duration d and 0 <= remaining <= d.
C7_StatusAfterStart ==
    [][(last.cmd = "start" /\ last.res = "OK" /\ last'.cmd = "status")
       => (/\ last'.res = "OK"
           /\ last'.has
           /\ last'.duration = last.duration
           /\ 0 <= last'.remaining
           /\ last'.remaining <= last.duration)]_vars

\* C8: a worker that is neither paused nor stopped eventually exits by
\* itself, and a status command issued when no worker is alive reports idle.
C8_NaturalCompletion ==
    /\ \A i \in 1..MaxRunners :
          (i \in DOMAIN runners /\ is_alive(runners[i]))
          ~> (/\ i \in DOMAIN runners
              /\ \/ ~is_alive(runners[i])
                 \/ runners[i].is_paused
                 \/ runners[i].how = "stop")
    /\ [][(AliveRunners = {} /\ status("status")) => last' = Resp("status", "OK")]_vars

\* a worker that was started with a positive duration and was never paused
\* or stopped has exited by natural completion
C8_Witness ==
    \E i \in DOMAIN runners :
        /\ ~is_alive(runners[i])
        /\ runners[i].how = "natural"
        /\ runners[i].duration > 0

\* C9: start(d) while the handle is live answers ALREADY_RUNNING and changes
\* neither the handle nor any worker (no spawn, no message, same duration,
\* elapsed time and is_paused).
C9_StartWhileLive ==
    [][\A d \in Durations :
          (/\ timer # 0
           /\ is_alive(runners[timer])
           /\ start(d))
          => (/\ last' = Resp("start", "ALREADY_RUNNING")
              /\ UNCHANGED <<timer, runners>>)]_vars

\* start was refused while the worker it was refused for is still alive
C9_Witness ==
    /\ last = Resp("start", "ALREADY_RUNNING")
    /\ timer # 0
    /\ is_alive(runners[timer])

\* C10 (as claimed): a pause command that follows a pause answered OK is
\* answered ALREADY_PAUSED.
C10_SecondPauseAlreadyPaused ==
    [][(/\ last.cmd = "pause" /\ last.res = "OK"
        /\ op = "pause" /\ spc # "accept" /\ spc' \in {"accept", "crashed"})
       => last' = Resp("pause", "ALREADY_PAUSED")]_vars

\* the supervisor holds no handle, or the process of its handle has exited
NoLiveHandle == IF timer = 0 THEN TRUE ELSE ~is_alive(runners[timer])

\* no worker is spawned and no request is queued by the step
NothingSent ==
    /\ DOMAIN runners' = DOMAIN runners
    /\ \A i \in DOMAIN runners :
          /\ runners'[i].inbox = runners[i].inbox
          /\ is_alive(runners'[i]) = is_alive(runners[i])

\* C11: with no live handle stop answers NOT_RUNNING, status answers idle,
\* resume answers NOT_PAUSED and pause answers NOT_RUNNING; each of them
\* completes without waiting for a worker, spawns nothing and sends nothing.
C11_NoLiveHandle ==
    [][/\ (spc = "accept" /\ NoLiveHandle /\ stop)
            => (last' = Resp("stop", "NOT_RUNNING") /\ spc' = "accept" /\ NothingSent)
       /\ (spc = "accept" /\ NoLiveHandle /\ status("status"))
            => (last' = Resp("status", "OK") /\ spc' = "accept" /\ NothingSent)
       /\ (spc = "accept" /\ NoLiveHandle /\ status("resume"))
            => (last' = Resp("resume", "NOT_PAUSED") /\ spc' = "accept" /\ NothingSent)
       /\ (spc = "accept" /\ NoLiveHandle /\ status("pause"))
            => (spc' = "pause_running" /\ timer' = 0 /\ NothingSent)
       /\ (spc = "pause_running" /\ NoLiveHandle /\ pause_running)
            => (last' = Resp("pause", "NOT_RUNNING") /\ spc' = "accept" /\ NothingSent)
      ]_vars

\* pause was answered NOT_RUNNING after a worker had run, exited and been
\* reaped
C11_Witness ==
    /\ last = Resp("pause", "NOT_RUNNING")
    /\ timer = 0
    /\ Len(runners) >= 1
    /\ runners[Len(runners)] = Reaped

\* the worker of the handle is not paused and no PAUSE is on its way to it
HandleNotPaused ==
    /\ timer # 0
    /\ ~runners[timer].is_paused
    /\ \A k \in DOMAIN runners[timer].inbox : runners[timer].inbox[k] # "PAUSE"

\* C12 (as claimed): a resume command on a timer that is not paused ends
\* with the answer NOT_PAUSED and queues no RESUME.
C12_ResumeNotPaused ==
    [][(/\ op = "resume"
        /\ HandleNotPaused
        /\ spc' \in {"accept", "crashed", "resume_send"})
       => (last' = Resp("resume", "NOT_PAUSED") /\ NothingSent)]_vars

\* C13 (as claimed): every request that is not a command is answered
\* INVALID_COMMAND, the daemon is back at accept and the timer is untouched.
C13_InvalidCommand ==
    [][\A q \in BadRequests :
          bad_request(q)
          => (/\ last' = Resp("invalid", "INVALID_COMMAND")
              /\ spc' = "accept"
              /\ UNCHANGED <<timer, runners>>)]_vars

\* C14 (as claimed): whether or not its hook raises, a worker goes from
\* begin_cmd into its loop, and from done_cmd on to end_cmd.
C14_HookFailureHarmless ==
    [][\A i \in DOMAIN runners :
          /\ (runners[i].pc = "begin" /\ runners'[i].pc # "begin")
                => runners'[i].pc = "head"
          /\ (runners[i].pc = "done" /\ runners'[i].pc # "done")
                => runners'[i].pc = "end"]_vars

\* a STOP is on its way to worker i
StopPending(i) ==
    \E k \in DOMAIN runners[i].inbox : runners[i].inbox[k] = "STOP"

\* C15: a start issued when the worker of the handle has exited (or there is
\* no handle) answers OK and spawns a fresh worker; and a worker that was sent
\* STOP eventually exits, paused or not, so that start is available again.
C15_NoOrphanedHandle ==
    /\ [][\A d \in Durations :
             (NoLiveHandle /\ start(d))
             => (/\ last' = [Resp("start", "OK") EXCEPT !.duration = d]
                 /\ Len(runners') = Len(runners) + 1
                 /\ timer' = Len(runners')
                 /\ runners'[timer'] = NewRunner(d))]_vars
    /\ \A i \in 1..MaxRunners :
          (i \in DOMAIN runners /\ is_alive(runners[i]) /\ StopPending(i))
          ~> (i \in DOMAIN runners /\ ~is_alive(runners[i]))

\* a second worker was started after the first one, stopped while paused,
\* had exited
C15_Witness ==
    /\ Len(runners) = 2
    /\ runners[1] = Reaped
    /\ runners[2].how = "stop"
    /\ runners[2].is_paused
    /\ ~is_alive(runners[2])

\* C16 (as claimed): a worker never leaves its loop by natural completion
\* (on to done_cmd) while is_paused is true.
C16_NoCompletionWhilePaused ==
    \A i \in DOMAIN runners : runners[i].pc = "done" => ~runners[i].is_paused

\* C17 (as claimed): only the status command performs a blocking receive.
C17_OnlyStatusReceives == spc = "status_recv" => op = "status"

\* C17 (amended): start and stop never wait for the worker; pause and resume
\* receive only inside the status round trip of _is_paused and send PAUSE or
\* RESUME without waiting for an acknowledgment: outside of Timer.status's
\* recv the supervisor can always take its next step.
C17_ReceiveOnlyInStatus ==
    /\ spc = "status_recv" => op \in {"status", "pause", "resume"}
    /\ op = "stop" => spc \in {"stop_send", "crashed"}
    /\ spc \in {"stop_send", "status_send", "pause_running", "pause_send", "resume_send"}
          => ENABLED SupervisorStep

\* pause is waiting in recv for the reply to the STATUS of _is_paused
C17_Witness ==
    /\ spc = "status_recv"
    /\ op = "pause"
    /\ is_alive(runners[timer])
    /\ runners[timer].outbox = <<>>

\* C18: the payload of the status command that follows a pause answered OK
\* has is_paused true, the one that follows a resume answered OK has it
\* false; and is_paused of a running worker changes only when that worker
\* reads PAUSE (to true) or RESUME (to false).
C18_CommandsInOrder ==
    [][/\ (last.cmd = "pause" /\ last.res = "OK" /\ last'.cmd = "status" /\ last'.has)
            => last'.is_paused
       /\ (last.cmd = "resume" /\ last.res = "OK" /\ last'.cmd = "status" /\ last'.has)
            => ~last'.is_paused
       /\ \A i \in DOMAIN runners :
             (is_alive(runners[i]) /\ runners'[i].is_paused # runners[i].is_paused)
             => (/\ runners[i].pc = "recv"
                 /\ runners[i].inbox # <<>>
                 /\ Head(runners[i].inbox) \in {"PAUSE", "RESUME"}
                 /\ runners'[i].is_paused = (Head(runners[i].inbox) = "PAUSE"))]_vars

\* status reported a paused timer
C18_Witness ==
    /\ last.cmd = "status"
    /\ last.has
    /\ last.is_paused
    /\ timer # 0
    /\ runners[timer].is_paused

\* STATUS requests worker i has not read yet, plus replies not yet received
RECURSIVE CountStatus(_)
CountStatus(q) ==
    IF q = <<>> THEN 0
    ELSE (IF Head(q) = "STATUS" THEN 1 ELSE 0) + CountStatus(Tail(q))

Outstanding(i) == CountStatus(runners[i].inbox) + Len(runners[i].outbox)

\* C19: the worker writes to the pipe only the one reply to each STATUS it
\* reads and the supervisor reads it before it sends anything else: while the
\* supervisor is not in the recv of Timer.status no request is unanswered and
\* no reply is unread; while it is, exactly its own request or the reply to
\* it is in the pipe (nothing once the worker has exited without replying).
C19_NoStaleReply ==
    \A i \in DOMAIN runners :
        IF spc = "status_recv" /\ i = timer
        THEN /\ Outstanding(i) <= 1
             /\ is_alive(runners[i]) => Outstanding(i) = 1
        ELSE Outstanding(i) = 0

\* the reply to the pending status request is in the pipe, unread
C19_Witness ==
    /\ spc = "status_recv"
    /\ Len(runners[timer].outbox) = 1
    /\ CountStatus(runners[timer].inbox) = 0

\* a step in which main() returns from s.accept() with the next connection
AcceptStep == spc = "accept" /\ SupervisorStep

\* C20 (as claimed): the listener closes a connection before it accepts the
\* next one: at every accept there is no connection before it, or that
\* connection's socket is closed.
C20_ClosedBeforeNextAccept ==
    [][AcceptStep => conn \in {"none", "closed"}]_vars

====
